---- MODULE Spec2Model ----
(***************************************************************************)
(* Control plane of the proksi reverse proxy: the process-wide Route       *)
(* Store (main.rs ROUTE_STORE), its bootstrap in main(), the Routing       *)
(* Service that seeds it from configuration and drains the Discovery       *)
(* Channel (services/discovery/mod.rs), and the Storage that tracks ACME   *)
(* orders and issued certificates (main.rs Storage).                       *)
(*                                                                         *)
(* Option<T> is modelled as a sequence of length 0 (None) or 1 (Some).     *)
(* A map is a function whose DOMAIN is the set of keys present.            *)
(***************************************************************************)
EXTENDS Integers, Sequences, FiniteSets, TLC

\* ---------------------------------------------------------------- bounds
Hosts == {"h1", "h2"}

MaxRoutes == 2

MaxEvents == 2

ChannelCap == 1

MaxOrders == 3

\* ------------------------------------------------------------- addresses
\* A socket-address string is a sequence of its parts: <<ip, ":", port>> is
\* the string "ip:port"; <<"not-an-addr">> has no port separator.
IpLiterals == {"10.0.0.1", "10.0.0.2"}

HostNames == {"backend.local"}

\* the address a host name resolves to when the resolver answers
DnsRecord(name) == "10.0.0.2"

\* format!("{}:{}", upstr.ip, upstr.port)
FormatAddr(upstr) == <<upstr.ip, ":", upstr.port>>

FormatAll(upstreams) == [i \in 1..Len(upstreams) |-> FormatAddr(upstreams[i])]

\* ToSocketAddrs for a string: a parse of "ip:port", or a resolver lookup of
\* "name:port" whose outcome dnsOk is the resolver's answer at the call.
ToSocketAddrs(s, dnsOk) ==
    IF Len(s) # 3 \/ s[2] # ":"
    THEN [ok |-> FALSE, addrs |-> {}]
    ELSE IF s[1] \in IpLiterals
         THEN [ok |-> TRUE, addrs |-> {<<s[1], s[3]>>}]
         ELSE IF s[1] \in HostNames /\ dnsOk
              THEN [ok |-> TRUE, addrs |-> {<<DnsRecord(s[1]), s[3]>>}]
              ELSE [ok |-> FALSE, addrs |-> {}]

NeedsDns(input) == \E i \in 1..Len(input) : Len(input[i]) = 3 /\ input[i][1] \in HostNames

\* the resolver outcomes a call over input can observe
DnsOutcomes(input) == IF NeedsDns(input) THEN BOOLEAN ELSE {TRUE}

\* a try_from_iter that drops the addresses that do not convert
TryFromIterLenient(input, dnsOk) ==
    [ok |-> TRUE,
     backends |-> UNION {ToSocketAddrs(input[i], dnsOk).addrs : i \in 1..Len(input)}]

\* LoadBalancer::try_from_iter: every address must convert, the backends are
\* the union of the converted addresses; the first failure is the Err.
TryFromIter(input, dnsOk) ==
    IF \A i \in 1..Len(input) : ToSocketAddrs(input[i], dnsOk).ok
    THEN [ok |-> TRUE,
          backends |-> UNION {ToSocketAddrs(input[i], dnsOk).addrs : i \in 1..Len(input)}]
    ELSE [ok |-> FALSE, backends |-> {}]

\* health_check_frequency = Some(Duration::from_secs(15))
HealthCheckSecs == 15

\* ------------------------------------------------------------------ maps
EmptyMap == [k \in {} |-> {}]

MapGet(m, k) == IF k \in DOMAIN m THEN <<m[k]>> ELSE <<>>

MapInsert(m, k, v) == [x \in DOMAIN m \cup {k} |-> IF x = k THEN v ELSE m[x]]

\* -------------------------------------------------------- route entries
\* Option<RouteMatcher>: None, a matcher without a path matcher, a path
\* matcher with no pattern, a path matcher with patterns.
NoMatcher == <<>>

\* the patterns add_route_to_router hands to path_matcher.with_pattern:
\* those of a Some(path_matcher) whose pattern list is not empty
PatternsOf(match_with) ==
    IF match_with # <<>> /\ match_with[1].path # <<>>
       /\ Len(match_with[1].path[1].patterns) > 0
    THEN match_with[1].path[1].patterns
    ELSE <<>>

\* the RouteStoreContainer add_route_to_router builds from an Ok pool
Container(lb, match_with) ==
    [backends |-> lb.backends,
     health_check_frequency |-> <<HealthCheckSecs>>,
     patterns |-> PatternsOf(match_with)]

\* the entry main() stores: the health-checked pool, no frequency, no matcher
MainEntry(lb) ==
    [backends |-> lb.backends, health_check_frequency |-> <<>>, patterns |-> <<>>]

\* RouteStore::add_route on main()'s local table
AddRoute(store, host, entry) == MapInsert(store, host, entry)

\* an insert that keeps an entry already present
InsertRouteIfAbsent(store, host, container) ==
    IF host \in DOMAIN store THEN store ELSE MapInsert(store, host, container)

\* an insert that merges the backends of the entry already present
InsertRouteMerge(store, host, container) ==
    MapInsert(store, host,
              IF host \in DOMAIN store
              THEN [container EXCEPT !.backends = @ \cup store[host].backends]
              ELSE container)

\* an insert that leaves the new entry as the only one of the table
InsertRouteOnly(store, host, container) == [h \in {host} |-> container]

\* ROUTE_STORE.insert(host, container)
InsertRoute(store, host, container) == MapInsert(store, host, container)

\* a lookup of the process-wide table
GetRoute(store, host) == MapGet(store, host)

\* get_route_keys()
GetRouteKeys(store) == DOMAIN store

\* add_route_to_router without the early return on Err
AddRouteToRouterNoReturn(store, host, upstream_input, match_with, dnsOk) ==
    InsertRoute(store, host,
                Container(TryFromIterLenient(upstream_input, dnsOk), match_with))

\* add_route_to_router: the table after the call
AddRouteToRouter(store, host, upstream_input, match_with, dnsOk) ==
    LET upstreams == TryFromIter(upstream_input, dnsOk)
    IN  IF ~upstreams.ok
        THEN store
        ELSE InsertRoute(store, host, Container(upstreams, match_with))

\* --------------------------------------------------------- configuration
\* the upstream lists and match rules of the configured routes
StaticShapes ==
    { [upstreams |-> <<[ip |-> "10.0.0.1", port |-> 80]>>,
       match_with |-> NoMatcher],
      [upstreams |-> <<[ip |-> "backend.local", port |-> 80]>>,
       match_with |-> <<[path |-> <<[patterns |-> <<"/api/*">>]>>]>>],
      [upstreams |-> <<[ip |-> "10.0.0.1", port |-> 80], [ip |-> "10.0.0.2", port |-> 80]>>,
       match_with |-> <<[path |-> <<[patterns |-> <<>>]>>]>>],
      [upstreams |-> <<[ip |-> "not-a-host", port |-> 80]>>,
       match_with |-> <<[path |-> <<>>]>>] }

StaticRoutes ==
    { [host |-> h, upstreams |-> s.upstreams, match_with |-> s.match_with] :
        h \in Hosts, s \in StaticShapes }

Configs == UNION { [1..n -> StaticRoutes] : n \in 0..MaxRoutes }

\* ------------------------------------------------------ discovery events
EventUpstreams ==
    { << <<"10.0.0.1", ":", 80>> >>,
      << <<"10.0.0.2", ":", 80>> >>,
      << <<"10.0.0.1", ":", 80>>, <<"not-an-addr">> >> }

\* MsgProxy: NewRoute(route) or a message of another kind
Events ==
    { [kind |-> "NewRoute", host |-> h, upstreams |-> u, match_rule |-> m] :
        h \in Hosts, u \in EventUpstreams,
        m \in {NoMatcher, <<[path |-> <<[patterns |-> <<"/api/*">>]>>]>>} }
    \cup { [kind |-> "Other", host |-> "h1", upstreams |-> <<>>, match_rule |-> NoMatcher] }

\* --------------------------------------------------------------- Storage
\* Storage::new
StorageNew == [orders |-> EmptyMap, certificates |-> EmptyMap]

\* an add_order that also forgets the certificate stored for the identifier
AddOrderDropsCertificate(st, identifier, token, url, key_auth) ==
    [orders |-> MapInsert(st.orders, identifier, <<token, url, key_auth>>),
     certificates |-> [h \in DOMAIN st.certificates \ {identifier} |-> st.certificates[h]]]

\* Storage::add_order: self.orders.insert(identifier, (token, url, key_auth))
AddOrder(st, identifier, token, url, key_auth) ==
    [st EXCEPT !.orders = MapInsert(@, identifier, <<token, url, key_auth>>)]

\* an add_certificate that stores the certificate under every known host
AddCertificateEveryHost(st, host, certificate) ==
    [st EXCEPT !.certificates = [h \in Hosts |-> certificate]]

\* Storage::add_certificate: self.certificates.insert(host, certificate)
AddCertificate(st, host, certificate) ==
    [st EXCEPT !.certificates = MapInsert(@, host, certificate)]

\* Storage::get_certificate
GetCertificate(st, host) == MapGet(st.certificates, host)

\* a get_orders that returns an empty map
GetOrdersEmpty(st) == EmptyMap

\* Storage::get_orders
GetOrders(st) == st.orders

\* Storage::get_order
GetOrder(st, order) == MapGet(st.orders, order)

\* a certificate record: private key and certificate chain
CertificateRecords ==
    { [key |-> "k1", certificate |-> "c1"], [key |-> "k2", certificate |-> "c2"] }

\* the account's key thumbprint, the same in every key authorization
Thumbprint == "abc"

\* the KeyAuthorization of a challenge token, and its text "token.thumbprint"
KeyAuth(token) == [token |-> token, thumbprint |-> Thumbprint]

KeyAuthStr(key_auth) == <<key_auth.token, ".", key_auth.thumbprint>>

\* the validation URL of a challenge
ChallengeUrl(token) == <<"https://acme/chall/", token>>

\* the plain-HTTP responder for /.well-known/acme-challenge/{token}: the
\* key authorization of the order that has the token, or no challenge body
ChallengeResponse(st, token) ==
    LET orders == GetOrders(st)
        hit == {id \in DOMAIN orders : orders[id][1] = token}
    IN  IF hit = {}
        THEN [status |-> 404, body |-> <<>>]
        ELSE [status |-> 200, body |-> KeyAuthStr(orders[CHOOSE id \in hit : TRUE][3])]

\* ----------------------------------------------------------------- state
VARIABLES
    config,        \* proxy_config.routes / RoutingService.config.routes
    mainPc,        \* main(): "routes", "letsencrypt", "swap", "running", "aborted"
    mainIdx,       \* main(): index of the next route of the for loop
    router_store,  \* main(): the local RouteStore
    ROUTE_STORE,   \* the process-wide table
    acmeHosts,     \* the host list handed to HttpLetsencrypt::new
    rsPc,          \* RoutingService: "stopped", "bootstrapping", "serving"
    rsIdx,         \* add_routes_from_config: index of the next route
    chan,          \* broadcast channel: the events the receiver has not seen,
                   \* each with its number in the order of emission
    lagged,        \* the receiver missed events: its next recv is Err(Lagged)
    emitted,       \* number of events the discovery sources have sent
    lastRecv,      \* history: what the last receiver.recv() returned
    subscribedAt,  \* history: the number of events sent before subscribe()
    lagSeen,       \* history: a recv() has returned Err(Lagged)
    installed,     \* history: per host, the last successful add_route_to_router
    storage,       \* the Storage behind the StorageArc mutex
    acmeCur,       \* ACME service: the host whose workflow is running, if any
    wf,            \* per host: "none", "pending", "valid" or "failed"
    nextToken,     \* the challenge token the ACME server hands out next
    httpResp,      \* the last answer of the plain-HTTP entry point
    lastCert,      \* history: per host, the last certificate stored
    guard,         \* the StorageArc mutex: its holder, if it is locked
    tls,           \* the server name of the handshake whose certificate
                   \* callback is running, if any
    selected       \* the last answer of the certificate callback

routeVars == <<config, mainPc, mainIdx, router_store, ROUTE_STORE, acmeHosts,
               rsPc, rsIdx, chan, lagged, emitted, lastRecv, subscribedAt, lagSeen,
               installed>>

acmeVars == <<storage, acmeCur, wf, nextToken, httpResp, lastCert,
              guard, tls, selected>>

vars == <<routeVars, acmeVars>>

RouteInit ==
    /\ config \in Configs
    /\ mainPc = "routes"
    /\ mainIdx = 1
    /\ router_store = EmptyMap
    /\ ROUTE_STORE = EmptyMap
    /\ acmeHosts = {}
    /\ rsPc = "stopped"
    /\ rsIdx = 1
    /\ chan = <<>>
    /\ lagged = FALSE
    /\ emitted = 0
    /\ lastRecv = <<>>
    /\ subscribedAt = 0
    /\ lagSeen = FALSE
    /\ installed = EmptyMap

\* ---------------------------------------------------------------- main()
\* one iteration of `for route in proxy_config.routes`: try_from_iter(..)?
\* returns the error from main(), otherwise the route is added
MainRoute ==
    /\ mainPc = "routes"
    /\ mainIdx <= Len(config)
    /\ LET route == config[mainIdx]
           input == FormatAll(route.upstreams)
       IN  \E dnsOk \in DnsOutcomes(input) :
             LET upstreams == TryFromIter(input, dnsOk)
             IN  IF ~upstreams.ok
                 THEN /\ mainPc' = "aborted"
                      /\ UNCHANGED <<mainIdx, router_store>>
                 ELSE /\ router_store' = AddRoute(router_store, route.host, MainEntry(upstreams))
                      /\ mainIdx' = mainIdx + 1
                      /\ mainPc' = mainPc
    /\ UNCHANGED <<config, ROUTE_STORE, acmeHosts, rsPc, rsIdx,
                   chan, lagged, emitted, lastRecv, subscribedAt, lagSeen, installed>>
    /\ UNCHANGED acmeVars

MainRoutesDone ==
    /\ mainPc = "routes"
    /\ mainIdx > Len(config)
    /\ mainPc' = "letsencrypt"
    /\ UNCHANGED <<config, mainIdx, router_store, ROUTE_STORE, acmeHosts, rsPc, rsIdx,
                   chan, lagged, emitted, lastRecv, subscribedAt, lagSeen, installed>>
    /\ UNCHANGED acmeVars

\* HttpLetsencrypt::new(&ROUTE_STORE.load().get_route_keys(), ..)
MainLetsencrypt ==
    /\ mainPc = "letsencrypt"
    /\ acmeHosts' = GetRouteKeys(ROUTE_STORE)
    /\ mainPc' = "swap"
    /\ UNCHANGED <<config, mainIdx, router_store, ROUTE_STORE, rsPc, rsIdx,
                   chan, lagged, emitted, lastRecv, subscribedAt, lagSeen, installed>>
    /\ UNCHANGED acmeVars

\* ROUTE_STORE.swap(Arc::new(router_store))
MainSwap ==
    /\ mainPc = "swap"
    /\ ROUTE_STORE' = router_store
    /\ mainPc' = "running"
    /\ UNCHANGED <<config, mainIdx, router_store, acmeHosts, rsPc, rsIdx,
                   chan, lagged, emitted, lastRecv, subscribedAt, lagSeen, installed>>
    /\ UNCHANGED acmeVars

\* services that run while main() is still before the swap
ServicesStartedEarly == mainPc \in {"swap", "running"}

\* the services run once main() has reached bootstrap(); run_forever()

ServicesStarted == mainPc = "running"

\* ------------------------------------------------------- RoutingService
\* the history entry of a successful add_route_to_router
\* (from: "static" or "event"; seq: the event's number, 0 for a static
\* route; rule: the match rule the route or the event carried; over: what
\* installed the entry it replaced, "none", "main", "static" or "event")
Install(host, upstream_input, match_with, dnsOk, from, seq, rule) ==
    [entry |-> Container(TryFromIter(upstream_input, dnsOk), match_with),
     input |-> upstream_input,
     dnsOk |-> dnsOk,
     prev  |-> GetRoute(ROUTE_STORE, host),
     from  |-> from,
     seq   |-> seq,
     rule  |-> rule,
     over  |-> IF host \in DOMAIN installed THEN installed[host].from
               ELSE IF host \in DOMAIN ROUTE_STORE THEN "main" ELSE "none"]

\* the number of the last event a recv() returned, 0 if none
LastSeq == IF lastRecv = <<>> THEN 0 ELSE lastRecv[1].seq

\* a recv() that leaves the event in the channel
RecvPeek(ch) == ch

\* receiver.recv(): the receiver's cursor moves past the event it returns
RecvAdvance(ch) == Tail(ch)

\* start_service: begins add_routes_from_config
RsStart ==
    /\ rsPc = "stopped"
    /\ ServicesStarted
    /\ rsPc' = "bootstrapping"
    /\ UNCHANGED <<config, mainPc, mainIdx, router_store, ROUTE_STORE, acmeHosts, rsIdx,
                   chan, lagged, emitted, lastRecv, subscribedAt, lagSeen, installed>>
    /\ UNCHANGED acmeVars

\* one iteration of add_routes_from_config
RsAddRoute ==
    /\ rsPc = "bootstrapping"
    /\ rsIdx <= Len(config)
    /\ LET route == config[rsIdx]
           input == FormatAll(route.upstreams)
       IN  \E dnsOk \in DnsOutcomes(input) :
             /\ ROUTE_STORE' = AddRouteToRouter(ROUTE_STORE, route.host, input,
                                                 route.match_with, dnsOk)
             /\ installed' = IF TryFromIter(input, dnsOk).ok
                             THEN MapInsert(installed, route.host,
                                            Install(route.host, input, route.match_with, dnsOk,
                                                    "static", 0, route.match_with))
                             ELSE installed
    /\ rsIdx' = rsIdx + 1
    /\ UNCHANGED <<config, mainPc, mainIdx, router_store, acmeHosts, rsPc,
                   chan, lagged, emitted, lastRecv, subscribedAt, lagSeen>>
    /\ UNCHANGED acmeVars

\* a subscribe() that does not wait for add_routes_from_config to end
RsSubscribeEarly ==
    /\ rsPc = "bootstrapping"
    /\ rsPc' = "serving"
    /\ chan' = <<>>
    /\ lagged' = FALSE
    /\ subscribedAt' = emitted
    /\ UNCHANGED <<config, mainPc, mainIdx, router_store, ROUTE_STORE, acmeHosts, rsIdx,
                   emitted, lastRecv, lagSeen, installed>>
    /\ UNCHANGED acmeVars

\* watch_for_route_changes: self.broadcast.subscribe(), then the loop runs
RsSubscribe ==
    /\ rsPc = "bootstrapping"
    /\ rsIdx > Len(config)
    /\ rsPc' = "serving"
    /\ chan' = <<>>
    /\ lagged' = FALSE
    /\ subscribedAt' = emitted
    /\ UNCHANGED <<config, mainPc, mainIdx, router_store, ROUTE_STORE, acmeHosts, rsIdx,
                   emitted, lastRecv, lagSeen, installed>>
    /\ UNCHANGED acmeVars

\* a loop that ends at the first recv() that is not Ok(NewRoute)
RsRecvWhileLet ==
    /\ rsPc = "serving"
    /\ IF lagged
       THEN /\ lagged' = FALSE
            /\ lastRecv' = <<[kind |-> "Lagged", seq |-> LastSeq]>>
            /\ lagSeen' = TRUE
            /\ rsPc' = "exited"
            /\ UNCHANGED <<chan, ROUTE_STORE, installed>>
       ELSE /\ chan # <<>>
            /\ chan' = RecvAdvance(chan)
            /\ lagged' = lagged
            /\ lastRecv' = <<[kind |-> "Ok", seq |-> Head(chan).seq, msg |-> Head(chan).msg]>>
            /\ lagSeen' = lagSeen
            /\ LET msg == Head(chan).msg
                   seq == Head(chan).seq
               IN  IF msg.kind = "NewRoute"
                   THEN /\ rsPc' = rsPc
                        /\ \E dnsOk \in DnsOutcomes(msg.upstreams) :
                          /\ ROUTE_STORE' = AddRouteToRouter(ROUTE_STORE, msg.host,
                                                              msg.upstreams, NoMatcher, dnsOk)
                          /\ installed' =
                               IF TryFromIter(msg.upstreams, dnsOk).ok
                               THEN MapInsert(installed, msg.host,
                                              Install(msg.host, msg.upstreams, NoMatcher, dnsOk,
                                                      "event", seq, msg.match_rule))
                               ELSE installed
                   ELSE /\ rsPc' = "exited"
                        /\ UNCHANGED <<ROUTE_STORE, installed>>
    /\ UNCHANGED <<config, mainPc, mainIdx, router_store, acmeHosts, rsIdx, emitted,
                   subscribedAt>>
    /\ UNCHANGED acmeVars

\* one iteration of the loop: receiver.recv().await, then the if let
RsRecv ==
    /\ rsPc = "serving"
    /\ IF lagged
       THEN \* Err(Lagged): the pattern does not match, nothing is done
            /\ lagged' = FALSE
            /\ lastRecv' = <<[kind |-> "Lagged", seq |-> LastSeq]>>
            /\ lagSeen' = TRUE
            /\ UNCHANGED <<chan, ROUTE_STORE, installed>>
       ELSE /\ chan # <<>>
            /\ chan' = RecvAdvance(chan)
            /\ lagged' = lagged
            /\ lastRecv' = <<[kind |-> "Ok", seq |-> Head(chan).seq, msg |-> Head(chan).msg]>>
            /\ lagSeen' = lagSeen
            /\ LET msg == Head(chan).msg
                   seq == Head(chan).seq
               IN  IF msg.kind = "NewRoute"
                   THEN \E dnsOk \in DnsOutcomes(msg.upstreams) :
                          /\ ROUTE_STORE' = AddRouteToRouter(ROUTE_STORE, msg.host,
                                                              msg.upstreams, NoMatcher, dnsOk)
                          /\ installed' =
                               IF TryFromIter(msg.upstreams, dnsOk).ok
                               THEN MapInsert(installed, msg.host,
                                              Install(msg.host, msg.upstreams, NoMatcher, dnsOk,
                                                      "event", seq, msg.match_rule))
                               ELSE installed
                   ELSE UNCHANGED <<ROUTE_STORE, installed>>
    /\ UNCHANGED <<config, mainPc, mainIdx, router_store, acmeHosts, rsPc, rsIdx, emitted,
                   subscribedAt>>
    /\ UNCHANGED acmeVars

\* a discovery source sends an event on the broadcast channel: with no
\* receiver the send fails and the event is gone; with a full buffer the
\* oldest event the receiver has not seen is overwritten
DiscoverySend ==
    /\ ServicesStarted
    /\ emitted < MaxEvents
    /\ emitted' = emitted + 1
    /\ \E e \in Events :
         IF rsPc # "serving"
         THEN UNCHANGED <<chan, lagged>>
         ELSE IF Len(chan) >= ChannelCap
              THEN /\ chan' = Append(Tail(chan), [seq |-> emitted + 1, msg |-> e])
                   /\ lagged' = TRUE
              ELSE /\ chan' = Append(chan, [seq |-> emitted + 1, msg |-> e])
                   /\ lagged' = lagged
    /\ UNCHANGED <<config, mainPc, mainIdx, router_store, ROUTE_STORE, acmeHosts,
                   rsPc, rsIdx, lastRecv, subscribedAt, lagSeen, installed>>
    /\ UNCHANGED acmeVars

RouteNext ==
    \/ MainRoute
    \/ MainRoutesDone
    \/ MainLetsencrypt
    \/ MainSwap
    \/ RsStart
    \/ RsAddRoute
    \/ RsSubscribe
    \/ RsRecv
    \/ DiscoverySend

\* --------------------------------------------- ACME Automation Service
AcmeIdle ==
    /\ storage = StorageNew
    /\ acmeCur = <<>>
    /\ wf = [h \in Hosts |-> "none"]
    /\ nextToken = 1
    /\ httpResp = <<>>
    /\ lastCert = EmptyMap
    /\ guard = <<>>
    /\ tls = <<>>
    /\ selected = <<>>

\* Mutex::lock of the StorageArc: it is granted only while nobody holds it
LockFree(g) == g = <<>>

\* the MutexGuard a task holds while it works on the Storage
Locked(who, op, host) == <<[who |-> who, op |-> op, host |-> host]>>

\* steps 1-2 of the workflow: a new order, its HTTP-01 challenge, add_order
AcmeNewOrder ==
    /\ acmeCur = <<>>
    /\ nextToken <= MaxOrders
    /\ LockFree(guard)
    /\ \E h \in Hosts :
         /\ storage' = AddOrder(storage, h, nextToken, ChallengeUrl(nextToken),
                                KeyAuth(nextToken))
         /\ acmeCur' = <<h>>
         /\ wf' = [wf EXCEPT ![h] = "pending"]
         /\ guard' = Locked("acme", "add_order", h)
    /\ nextToken' = nextToken + 1
    /\ UNCHANGED <<httpResp, lastCert, tls, selected>>
    /\ UNCHANGED routeVars

\* step 5: the order is valid, the issued certificate is stored
AcmeValid ==
    /\ acmeCur # <<>>
    /\ LockFree(guard)
    /\ LET h == acmeCur[1]
       IN  \E c \in CertificateRecords :
             /\ storage' = AddCertificate(storage, h, c)
             /\ lastCert' = MapInsert(lastCert, h,
                                      [cert |-> c, prev |-> GetCertificate(storage, h)])
             /\ wf' = [wf EXCEPT ![h] = "valid"]
             /\ guard' = Locked("acme", "add_certificate", h)
    /\ acmeCur' = <<>>
    /\ UNCHANGED <<nextToken, httpResp, tls, selected>>
    /\ UNCHANGED routeVars

\* step 6: the order is invalid or expired, or a request failed
AcmeFail ==
    /\ acmeCur # <<>>
    /\ LockFree(guard)
    /\ wf' = [wf EXCEPT ![acmeCur[1]] = "failed"]
    /\ acmeCur' = <<>>
    /\ UNCHANGED <<storage, nextToken, httpResp, lastCert, guard, tls, selected>>
    /\ UNCHANGED routeVars

\* the workflow step is done with the Storage: its MutexGuard is dropped
AcmeRelease ==
    /\ guard # <<>>
    /\ guard[1].who = "acme"
    /\ guard' = <<>>
    /\ UNCHANGED <<storage, acmeCur, wf, nextToken, httpResp, lastCert, tls, selected>>
    /\ UNCHANGED routeVars

\* a plain-HTTP request for /.well-known/acme-challenge/{token}
HttpChallenge ==
    /\ LockFree(guard)
    /\ \E h \in Hosts, token \in 0..MaxOrders :
         httpResp' = <<[host |-> h, token |-> token,
                        response |-> ChallengeResponse(storage, token)]>>
    /\ UNCHANGED <<storage, acmeCur, wf, nextToken, lastCert, guard, tls, selected>>
    /\ UNCHANGED routeVars

\* a TLS handshake names server h: the engine calls the certificate
\* callback of the CertStore, which was built over the StorageArc
TlsHello ==
    /\ tls = <<>>
    /\ \E h \in Hosts : tls' = <<h>>
    /\ UNCHANGED <<storage, acmeCur, wf, nextToken, httpResp, lastCert, guard, selected>>
    /\ UNCHANGED routeVars

\* the callback locks the StorageArc, looks the server name up with
\* get_certificate and drops the lock
TlsSelect ==
    /\ tls # <<>>
    /\ LockFree(guard)
    /\ selected' = <<[host |-> tls[1], cert |-> GetCertificate(storage, tls[1])]>>
    /\ tls' = <<>>
    /\ UNCHANGED <<storage, acmeCur, wf, nextToken, httpResp, lastCert, guard>>
    /\ UNCHANGED routeVars

AcmeNext ==
    \/ AcmeNewOrder
    \/ AcmeValid
    \/ AcmeFail
    \/ AcmeRelease
    \/ HttpChallenge
    \/ TlsHello
    \/ TlsSelect

\* the routing state once main() is at run_forever(), for a configuration
\* of no route or of one route for h1
BootedConfigs ==
    { <<>>,
      <<[host |-> "h1", upstreams |-> <<[ip |-> "10.0.0.1", port |-> 80]>>,
         match_with |-> NoMatcher]>> }

AcmeRouteInit ==
    /\ config \in BootedConfigs
    /\ mainPc = "running"
    /\ mainIdx = Len(config) + 1
    /\ router_store =
         [h \in {config[i].host : i \in 1..Len(config)} |->
            MainEntry(TryFromIter(FormatAll(config[Len(config)].upstreams), TRUE))]
    /\ ROUTE_STORE = router_store
    /\ acmeHosts = {}
    /\ rsPc = "stopped"
    /\ rsIdx = 1
    /\ chan = <<>>
    /\ lagged = FALSE
    /\ emitted = 0
    /\ lastRecv = <<>>
    /\ subscribedAt = 0
    /\ lagSeen = FALSE
    /\ installed = EmptyMap

Init == RouteInit /\ AcmeIdle

Next == RouteNext

Spec == Init /\ [][Next]_vars

AcmeInit == AcmeRouteInit /\ AcmeIdle

SpecAcme == AcmeInit /\ [][AcmeNext]_vars

\* ------------------------------------------------ Route Store properties
\* the addresses an upstream list names, failures left out
AddressesOf(input, dnsOk) ==
    UNION {ToSocketAddrs(input[i], dnsOk).addrs : i \in 1..Len(input)}

\* an upstream list that cannot be turned into a pool, whatever the resolver
Malformed(input) == \E i \in 1..Len(input) : ~ToSocketAddrs(input[i], TRUE).ok

\* C1: read-your-write. For every host H, after add_route_to_router has
\* inserted entry E for H, a lookup of H returns exactly E in every state
\* up to the next insert for H, whatever was inserted for other hosts since.
C1_ReadYourWrite ==
    \A h \in DOMAIN installed : GetRoute(ROUTE_STORE, h) = <<installed[h].entry>>

\* both hosts hold an entry inserted by add_route_to_router, and the entries differ
C1_Witness ==
    /\ DOMAIN installed = Hosts
    /\ installed["h1"].entry # installed["h2"].entry
    /\ lastRecv # <<>>

\* C2: last-writer-wins with full replacement. After a successful install
\* for H from address list E2, the backends of the entry for H are exactly
\* the addresses of E2; no backend of the entry it replaced survives unless
\* E2 lists it.
C2_LastWriterWins ==
    \A h \in DOMAIN installed :
        LET i == installed[h]
            want == AddressesOf(i.input, i.dnsOk)
        IN  /\ h \in DOMAIN ROUTE_STORE
            /\ ROUTE_STORE[h].backends = want
            /\ i.prev # <<>> =>
                 \A a \in i.prev[1].backends : a \in ROUTE_STORE[h].backends => a \in want

\* an install replaced an entry that had a backend the new list does not name
C2_Witness ==
    \E h \in DOMAIN installed :
        /\ installed[h].prev # <<>>
        /\ installed[h].prev[1].backends \ ROUTE_STORE[h].backends # {}

\* C3: a malformed discovery event changes nothing. When the receive loop
\* takes a NewRoute event whose upstream list cannot be turned into a pool,
\* the Route Store is left as it was, the event is consumed and not queued
\* again, and the service is still in its receive loop.
C3_MalformedEventDropped ==
    [][ ( /\ rsPc = "serving"
          /\ ~lagged
          /\ chan # <<>>
          /\ emitted' = emitted
          /\ Head(chan).msg.kind = "NewRoute"
          /\ Malformed(Head(chan).msg.upstreams) )
        => ( /\ ROUTE_STORE' = ROUTE_STORE
             /\ \A h \in Hosts : GetRoute(ROUTE_STORE', h) = GetRoute(ROUTE_STORE, h)
             /\ chan' = Tail(chan)
             /\ rsPc' = "serving" ) ]_vars

\* the loop has received a malformed event for a host that has an entry,
\* and is back at the receive
C3_Witness ==
    /\ lastRecv # <<>>
    /\ lastRecv[1].kind = "Ok"
    /\ lastRecv[1].msg.kind = "NewRoute"
    /\ Malformed(lastRecv[1].msg.upstreams)
    /\ lastRecv[1].msg.host \in DOMAIN ROUTE_STORE
    /\ rsPc = "serving"

\* a configured route whose addresses convert whatever the resolver answers
WellFormed(route) ==
    \A i \in 1..Len(route.upstreams) :
        ToSocketAddrs(FormatAddr(route.upstreams[i]), FALSE).ok

\* C4: a misconfigured static route never aborts startup: main() does not
\* return early, and once its route loop is over every well-formed route
\* of the configuration has its host in the table.
C4_StartupNeverAborts ==
    /\ mainPc # "aborted"
    /\ mainPc \in {"letsencrypt", "swap", "running"} =>
         \A i \in 1..Len(config) :
             WellFormed(config[i]) => config[i].host \in DOMAIN router_store

\* C5: the set of resolvable hosts never shrinks: a host that has an entry
\* in the process-wide table has one after every step.
C5_HostsNeverShrink ==
    [][ \A h \in Hosts : GetRoute(ROUTE_STORE, h) # <<>> => GetRoute(ROUTE_STORE', h) # <<>> ]_vars

\* the swap installed a non-empty table, a discovery event added a host the
\* configuration does not have, and a malformed event was received after it
C5_Witness ==
    /\ mainPc = "running"
    /\ DOMAIN router_store # {}
    /\ \E h \in DOMAIN installed : h \notin DOMAIN router_store
    /\ lastRecv # <<>>
    /\ lastRecv[1].kind = "Ok"
    /\ lastRecv[1].msg.kind = "NewRoute"
    /\ Malformed(lastRecv[1].msg.upstreams)

C13_AcmeSeededWithStaticHosts ==
    mainPc \in {"swap", "running"} => DOMAIN router_store \subseteq acmeHosts

\* C14: bootstrapping strictly precedes serving: the service is in its
\* receive loop only after every configured route has been processed; until
\* then nothing is received and no entry comes from an event; every event
\* applied was sent after the subscription; a static route never replaces
\* an entry that a discovery event installed.
C14_BootstrapBeforeServing ==
    /\ rsPc = "serving" => rsIdx > Len(config)
    /\ rsPc # "serving" =>
         /\ chan = <<>>
         /\ lastRecv = <<>>
         /\ \A h \in DOMAIN installed : installed[h].from = "static"
    /\ lastRecv # <<>> /\ lastRecv[1].kind = "Ok" => lastRecv[1].seq > subscribedAt
    /\ \A h \in DOMAIN installed :
         /\ installed[h].from = "event" => installed[h].seq > subscribedAt
         /\ installed[h].from = "static" => installed[h].over # "event"

\* an event sent before the subscription was lost, and a later event
\* replaced the entry of a static route
C14_Witness ==
    /\ rsPc = "serving"
    /\ subscribedAt >= 1
    /\ \E h \in DOMAIN installed :
         installed[h].from = "event" /\ installed[h].over = "static"

\* the entry add_route_to_router builds for a discovery event
EventEntry(upstreams) ==
    [backends |-> AddressesOf(upstreams, TRUE),
     health_check_frequency |-> <<HealthCheckSecs>>,
     patterns |-> <<>>]

\* C15: every valid event the loop receives is installed: once a NewRoute
\* event whose addresses form a pool has been received, the table holds for
\* its host the entry built from that event, or from an event received
\* later for the same host; this holds after a lag as well.
C15_ReceivedEventInstalled ==
    /\ (/\ lastRecv # <<>>
        /\ lastRecv[1].kind = "Ok"
        /\ lastRecv[1].msg.kind = "NewRoute"
        /\ ~Malformed(lastRecv[1].msg.upstreams))
       => /\ lastRecv[1].msg.host \in DOMAIN installed
          /\ installed[lastRecv[1].msg.host].from = "event"
          /\ installed[lastRecv[1].msg.host].seq = lastRecv[1].seq
          /\ installed[lastRecv[1].msg.host].input = lastRecv[1].msg.upstreams
    /\ \A h \in DOMAIN installed :
         installed[h].from = "event" =>
            /\ installed[h].seq <= LastSeq
            /\ GetRoute(ROUTE_STORE, h) = <<EventEntry(installed[h].input)>>

\* after a lag the loop received a valid event, the table holds its entry,
\* which replaced an earlier entry for the host
C15_Witness ==
    /\ lagSeen
    /\ lastRecv[1].kind = "Ok"
    /\ lastRecv[1].msg.kind = "NewRoute"
    /\ ~Malformed(lastRecv[1].msg.upstreams)
    /\ installed[lastRecv[1].msg.host].over # "none"
    /\ GetRoute(ROUTE_STORE, lastRecv[1].msg.host) = <<EventEntry(lastRecv[1].msg.upstreams)>>

\* C16: serving is terminal: no outcome of a receive (an event, a malformed
\* event, a lag error, a message of another kind) takes the service out of
\* its receive loop; an iteration happens only when the channel has an
\* event or a lag to report, and with neither the loop waits.
C16_ServingIsTerminal ==
    /\ [](rsPc = "serving" /\ ~lagged /\ chan = <<>> => ~ENABLED RsRecv)
    /\ [][ /\ rsPc = "serving" => rsPc' = "serving"
           /\ (rsPc = "serving" /\ <<lastRecv, ROUTE_STORE, installed, lagSeen>>' #
                                   <<lastRecv, ROUTE_STORE, installed, lagSeen>>)
                => (lagged \/ chan # <<>>) ]_vars

\* the loop has gone through a lag error and a message of another kind and
\* is waiting on the empty channel
C16_Witness ==
    /\ rsPc = "serving"
    /\ lagSeen
    /\ lastRecv[1].kind = "Ok"
    /\ lastRecv[1].msg.kind = "Other"
    /\ chan = <<>>
    /\ ~lagged

\* C18: whole-table replacement and per-key mutation are not mixed: the
\* table is replaced as a whole once, by main() at bootstrap, while no
\* service has run and nothing was inserted; main() never goes back; every
\* other change of the table changes the entry of one host.
C18_SwapOnceBeforeInserts ==
    /\ [](mainPc # "running" =>
            /\ rsPc = "stopped"
            /\ emitted = 0
            /\ installed = EmptyMap
            /\ ROUTE_STORE = EmptyMap)
    /\ [][ /\ mainPc = "running" => mainPc' = "running"
           /\ ROUTE_STORE' # ROUTE_STORE =>
                \/ /\ mainPc = "swap"
                   /\ mainPc' = "running"
                   /\ ROUTE_STORE' = router_store
                \/ /\ mainPc = "running"
                   /\ \E h \in Hosts :
                        /\ h \in DOMAIN ROUTE_STORE'
                        /\ \A g \in Hosts \ {h} :
                             GetRoute(ROUTE_STORE', g) = GetRoute(ROUTE_STORE, g) ]_vars

\* the swap installed a table of two hosts and an event then replaced one entry
C18_Witness ==
    /\ mainPc = "running"
    /\ DOMAIN router_store = Hosts
    /\ \E h \in DOMAIN installed : installed[h].from = "event"
    /\ \E h \in Hosts : h \notin DOMAIN installed /\ GetRoute(ROUTE_STORE, h) # <<>>

\* C19: an insert touches one key: a call of add_route_to_router for host
\* H, from a static route or from an event, accepted or rejected, and
\* main()'s add_route for H, leave the entry of every other host as it was.
C19_InsertTouchesOneKey ==
    [][ /\ rsIdx' # rsIdx =>
             \A g \in Hosts \ {config[rsIdx].host} :
                 GetRoute(ROUTE_STORE', g) = GetRoute(ROUTE_STORE, g)
        /\ (lastRecv' # lastRecv /\ lastRecv'[1].kind = "Ok") =>
             \A g \in Hosts \ {lastRecv'[1].msg.host} :
                 GetRoute(ROUTE_STORE', g) = GetRoute(ROUTE_STORE, g)
        /\ mainIdx' # mainIdx =>
             \A g \in Hosts \ {config[mainIdx].host} :
                 MapGet(router_store', g) = MapGet(router_store, g) ]_vars

\* an event was installed for one host while the other host keeps the
\* entry of a static route
C19_Witness ==
    \E h \in DOMAIN installed, g \in DOMAIN installed :
        /\ h # g
        /\ installed[h].from = "event"
        /\ installed[g].from = "static"
        /\ installed[h].over = "none"
        /\ GetRoute(ROUTE_STORE, g) = <<installed[g].entry>>

\* the patterns a match rule names: those of its path matcher, if it has
\* one with a pattern list that is not empty
RulePatterns(rule) ==
    IF rule = <<>> THEN <<>>
    ELSE IF rule[1].path = <<>> THEN <<>>
    ELSE rule[1].path[1].patterns

\* the configured route main() built the entry of host h from
MainRouteFor(h) ==
    config[CHOOSE i \in 1..(mainIdx - 1) :
             /\ config[i].host = h
             /\ \A j \in (i + 1)..(mainIdx - 1) : config[j].host # h]

\* C20: an entry carries path patterns exactly when it was built from a
\* static route whose match rule has a path matcher with patterns, and then
\* exactly those; an entry built from a discovery event carries none,
\* whatever match rule the event carried.
C20_PatternsFromStaticMatcherOnly ==
    \A h \in DOMAIN ROUTE_STORE :
        IF h \in DOMAIN installed
        THEN IF installed[h].from = "event"
             THEN ROUTE_STORE[h].patterns = <<>>
             ELSE ROUTE_STORE[h].patterns = RulePatterns(installed[h].rule)
        ELSE ROUTE_STORE[h].patterns = RulePatterns(MainRouteFor(h).match_with)

\* ---------------------------------------------------- Storage properties
\* C6: an identifier is in the pending-orders map only while its order is
\* in progress: once the workflow for a host has ended, valid or failed,
\* get_order for that host returns nothing.
C6_NoPendingAfterWorkflow ==
    \A h \in Hosts : wf[h] \in {"valid", "failed"} => GetOrder(storage, h) = <<>>

\* C7: a certificate changes only when the workflow of its host ends valid:
\* a workflow that fails and the registration of an order leave every
\* stored certificate as it was.
C7_FailureKeepsCertificates ==
    [][ /\ \A h \in Hosts :
             GetCertificate(storage', h) # GetCertificate(storage, h)
             => (acmeCur = <<h>> /\ wf'[h] = "valid")
        /\ (acmeCur # <<>> /\ wf'[acmeCur[1]] = "failed")
             => storage'.certificates = storage.certificates
        /\ (acmeCur = <<>> /\ acmeCur' # <<>>)
             => storage'.certificates = storage.certificates ]_vars

\* a workflow has failed for a host that still has its earlier certificate
C7_Witness ==
    \E h \in Hosts : wf[h] = "failed" /\ GetCertificate(storage, h) # <<>>

\* C8: certificate round trip: a lookup for a host returns the record last
\* stored for it, both fields as stored, and nothing for a host for which
\* no record was ever stored.
C8_CertificateRoundTrip ==
    \A h \in Hosts :
        GetCertificate(storage, h) =
            (IF h \in DOMAIN lastCert THEN <<lastCert[h].cert>> ELSE <<>>)

\* one host had its record overwritten by a different one, the other host
\* never had a record
C8_Witness ==
    \E h \in DOMAIN lastCert, g \in Hosts :
        /\ g \notin DOMAIN lastCert
        /\ lastCert[h].prev # <<>>
        /\ lastCert[h].prev[1] # lastCert[h].cert

\* C9: at most one order per host: an entry of the pending-orders map is
\* never replaced by a second registration for the same identifier.
C9_PendingOrderNotReplaced ==
    [][ \A h \in Hosts :
          GetOrder(storage, h) # <<>> => GetOrder(storage', h) = GetOrder(storage, h) ]_vars

\* the orders of the map that have challenge token t
OrdersWithToken(st, t) == {id \in DOMAIN st.orders : st.orders[id][1] = t}

Writing(a) ==
    /\ guard # <<>>
    /\ guard[1].host = a
    /\ guard[1].op \in {"add_order", "add_certificate"}

\* C11: per-key independence of the stores: while a certificate is being
\* written for host A, a certificate lookup for a different host B can
\* complete; no operation on B waits for an operation on A.
C11_WriterOfOtherHostNeverStalls ==
    \A a \in Hosts, b \in Hosts :
        (a # b /\ tls = <<b>> /\ Writing(a) /\ guard[1].op = "add_certificate")
            => ENABLED TlsSelect

\* C17: the handshake path never needs the guard of the Order Tracker: the
\* certificate callback of a handshake can always complete, whoever holds
\* that guard, so no step of the ACME workflow blocks a handshake.
C17_HandshakeNeverNeedsGuard ==
    tls # <<>> => ENABLED TlsSelect


====
